---- MODULE Spec2Model ----
(***************************************************************************)
(* A model of the FROST threshold Schnorr signing code of aleo-frost:      *)
(* preprocessing (preprocess.rs), binding values, group commitment and     *)
(* Lagrange coefficients (utils.rs), partial signing (frost.rs) and the    *)
(* aggregation and verification steps of main (main.rs).                   *)
(*                                                                         *)
(* The scalar field is the prime field of order Q and the group is the     *)
(* cyclic group of order Q written additively, with generator Gen.  The    *)
(* Poseidon hash-to-scalar functions are deterministic, order-sensitive    *)
(* folds of their preimage into the scalar field.                          *)
(***************************************************************************)
EXTENDS Integers, Sequences, FiniteSets, TLC

\* ------------------------------------------------------------------ bounds

\* nonce scalars are drawn from 0..MaxNonce
MaxNonce == 1
\* polynomial coefficients and the account seed are drawn from 0..MaxCoef
MaxCoef == 1
\* longest index list handed to calculate_lagrange_coefficients
MaxLen == 3

\* ------------------------------------------------- scalar field and group

\* order of the scalar field (and of the group)
Q == 11
\* the network generator, as an element of the group
Gen == 3
\* participant indices handed out by the key generation in main
N == 3
\* the signing threshold used by main
T == 2

Scalars == 0..(Q - 1)

Add(a, b) == (a + b) % Q
Sub(a, b) == (a + Q - b) % Q
Mul(a, b) == (a * b) % Q

\* Scalar::inverse: None for zero, which the callers unwrap
Inverse(a) == IF a % Q = 0 THEN [tag |-> "None"]
              ELSE [tag |-> "Some", val |-> CHOOSE y \in 1..(Q - 1) : (a * y) % Q = 1]

\* Scalar::from_field(U64::new(i).to_field()): the field embedding of an index
IndexToScalar(i) == i % Q

\* U64::new(i).to_field()
IndexToField(i) == i % Q

\* Network::g_scalar_multiply
GScalarMultiply(s) == (Gen * s) % Q

\* Group addition, and multiplication of a group element by a scalar
GAdd(p1, p2) == (p1 + p2) % Q
GMul(p, s) == (p * s) % Q

\* Group::to_x_coordinate: injective on the prime-order group
ToXCoordinate(p) == (2 * p + 5) % Q

RECURSIVE HashFold(_, _, _)
HashFold(preimage, acc, mul) ==
    IF preimage = <<>> THEN acc
    ELSE HashFold(Tail(preimage), (acc * mul + Head(preimage) + 1) % Q, mul)

\* Network::hash_to_scalar_psd2 / psd4 / psd8: one fold per Poseidon rate
HashToScalarPsd2(preimage) == HashFold(preimage, 4, 2)
HashToScalarPsd4(preimage) == HashFold(preimage, 1, 3)
HashToScalarPsd8(preimage) == HashFold(preimage, 2, 5)

\* ------------------------------------------------------------- utils.rs

\* the factor (j - i) that one index contributes to the denominator, with the
\* operands exchanged
DenominatorFactorSwapped(scalar, participant_index_scalar) ==
    Sub(participant_index_scalar, scalar)

\* the factor (j - i) that one index contributes to the denominator
DenominatorFactor(scalar, participant_index_scalar) ==
    Sub(scalar, participant_index_scalar)

RECURSIVE LagrangeLoop(_, _, _, _)
\* the loop of calculate_lagrange_coefficients: <<numerator, denominator>>
LagrangeLoop(participant_index, indices, numerator, denominator) ==
    IF indices = <<>> THEN <<numerator, denominator>>
    ELSE LET index == Head(indices)
             scalar == IndexToScalar(index)
         IN IF index = participant_index
            THEN LagrangeLoop(participant_index, Tail(indices), numerator, denominator)
            ELSE LagrangeLoop(participant_index, Tail(indices),
                              Mul(numerator, scalar),
                              Mul(denominator,
                                  DenominatorFactor(scalar,
                                                    IndexToScalar(participant_index))))

\* calculate_lagrange_coefficients: Ok(value), or a panic of the unwrap of the
\* inverse; the function has no path that returns Err
calculate_lagrange_coefficients(participant_index, all_participant_indices) ==
    LET nd == LagrangeLoop(participant_index, all_participant_indices, 1, 1)
        inverted_denominator == Inverse(nd[2])
    IN IF inverted_denominator.tag = "None" THEN [tag |-> "Panic"]
       ELSE [tag |-> "Ok", val |-> Mul(nd[1], inverted_denominator.val)]

\* ---------------------------------------------------------- preprocess.rs

\* SigningCommitment::from
SigningCommitmentFrom(participant_index, nonce) ==
    [participant_index |-> participant_index,
     hiding |-> GScalarMultiply(nonce.hiding),
     binding |-> GScalarMultiply(nonce.binding)]

\* the nonces SigningNonce::new can draw from the generator
SigningNonces == [hiding : 0..MaxNonce, binding : 0..MaxNonce]

\* ------------------------------------------------- utils.rs: binding value

\* Scalar::to_field of a hash output
ScalarToField(s) == s % Q

\* the fields one commitment adds to the preimage, without the binding point
CommitmentFieldsNoBinding(commitment) ==
    <<IndexToField(commitment.participant_index),
      ToXCoordinate(commitment.hiding)>>

\* the fields one commitment adds to the preimage of the binding value
CommitmentFields(commitment) ==
    <<IndexToField(commitment.participant_index),
      ToXCoordinate(commitment.hiding),
      ToXCoordinate(commitment.binding)>>

RECURSIVE PushCommitments(_, _)
\* the loop over signing_commitments, in the order the caller supplied
PushCommitments(preimage, signing_commitments) ==
    IF signing_commitments = <<>> THEN preimage
    ELSE PushCommitments(preimage \o CommitmentFields(Head(signing_commitments)),
                         Tail(signing_commitments))

\* the preimage calculate_binding_value hashes
BindingPreimage(participant_index, signing_commitments, message) ==
    LET message_hash == ScalarToField(HashToScalarPsd4(message))
    IN PushCommitments(<<IndexToField(participant_index), message_hash>>,
                       signing_commitments)

\* calculate_binding_value
calculate_binding_value(participant_index, signing_commitments, message) ==
    HashToScalarPsd4(BindingPreimage(participant_index, signing_commitments, message))

\* ------------------------------------------- utils.rs: group commitment

RECURSIVE GroupCommitmentLoopDefault(_, _, _)
\* the loop with a missing binding value read as zero instead of unwrapped
GroupCommitmentLoopDefault(signing_commitments, binding_values, accumulator) ==
    IF signing_commitments = <<>> THEN [tag |-> "Ok", val |-> accumulator]
    ELSE LET commitment == Head(signing_commitments)
             rho_i == IF commitment.participant_index \in DOMAIN binding_values
                      THEN binding_values[commitment.participant_index]
                      ELSE 0
         IN GroupCommitmentLoopDefault(
                Tail(signing_commitments), binding_values,
                GAdd(GAdd(accumulator, commitment.hiding),
                     GMul(commitment.binding, rho_i)))

RECURSIVE GroupCommitmentLoop(_, _, _)
\* the loop of calculate_group_commitment; the unwrap of a missing binding
\* value panics
GroupCommitmentLoop(signing_commitments, binding_values, accumulator) ==
    IF signing_commitments = <<>> THEN [tag |-> "Ok", val |-> accumulator]
    ELSE LET commitment == Head(signing_commitments)
         IN IF commitment.participant_index \notin DOMAIN binding_values
            THEN [tag |-> "Panic"]
            ELSE LET rho_i == binding_values[commitment.participant_index]
                 IN GroupCommitmentLoop(
                        Tail(signing_commitments), binding_values,
                        GAdd(GAdd(accumulator, commitment.hiding),
                             GMul(commitment.binding, rho_i)))

\* calculate_group_commitment
calculate_group_commitment(signing_commitments, binding_values) ==
    GroupCommitmentLoop(signing_commitments, binding_values, 0)

\* ------------------------------------------------ account (snarkvm calls)

\* ComputeKey::try_from((pk_sig, pr_sig)) followed by Address::try_from:
\* address = pk_sig + pr_sig + g^sk_prf, sk_prf hashed from the two points
DeriveAddress(pk_sig, pr_sig) ==
    LET sk_prf == HashToScalarPsd4(<<ToXCoordinate(pk_sig), ToXCoordinate(pr_sig)>>)
    IN GAdd(GAdd(pk_sig, pr_sig), GScalarMultiply(sk_prf))

\* PrivateKey::new, ComputeKey::try_from and Address::try_from in main
Account(seed) ==
    LET sk_sig == HashToScalarPsd2(<<1, seed>>)
        r_sig == HashToScalarPsd2(<<2, seed>>)
        pk_sig == GScalarMultiply(sk_sig)
        pr_sig == GScalarMultiply(r_sig)
    IN [sk_sig |-> sk_sig, pk_sig |-> pk_sig, pr_sig |-> pr_sig,
        address |-> DeriveAddress(pk_sig, pr_sig)]

RECURSIVE ShamirEval(_, _)
\* the sharing polynomial at x, constant term first
ShamirEval(coefficients, x) ==
    IF coefficients = <<>> THEN 0
    ELSE Add(Head(coefficients), Mul(x, ShamirEval(Tail(coefficients), x)))

\* trusted_keygen(n, t, secret, rng): the share of participant i is the value
\* at i of a polynomial of degree t-1 with constant term secret; every share
\* carries the group public key g^secret
trusted_keygen(n, secret, coefficients) ==
    [i \in 1..n |->
        [participant_index |-> i,
         secret_key |-> ShamirEval(<<secret>> \o coefficients, IndexToScalar(i)),
         group_public_key |-> GScalarMultiply(secret)]]

\* ------------------------------------------------------------- frost.rs

\* the binding values computed without the message
BindingValuesNoMessage(signing_commitments, message) ==
    [i \in {signing_commitments[k].participant_index :
                k \in 1..Len(signing_commitments)} |->
        calculate_binding_value(i, signing_commitments, <<>>)]

\* the loop that opens new_partial_sig: the HashMap of binding values
BindingValues(signing_commitments, message) ==
    [i \in {signing_commitments[k].participant_index :
                k \in 1..Len(signing_commitments)} |->
        calculate_binding_value(i, signing_commitments, message)]

\* x-coordinates of [R, pk_sig, pr_sig, address], without the message
ChallengePreimageNoMessage(group_commitment, pk_sig, pr_sig, address, message) ==
    <<ToXCoordinate(group_commitment), ToXCoordinate(pk_sig),
      ToXCoordinate(pr_sig), ToXCoordinate(address)>>

\* the preimage of the challenge: x-coordinates of [R, pk_sig, pr_sig,
\* address] followed by the message
ChallengePreimage(group_commitment, pk_sig, pr_sig, address, message) ==
    <<ToXCoordinate(group_commitment), ToXCoordinate(pk_sig),
      ToXCoordinate(pr_sig), ToXCoordinate(address)>> \o message

\* the response without the binding nonce term
ResponseNoBinding(hiding, binding, rho_i, lambda_i, secret_key, challenge) ==
    Sub(hiding, Mul(Mul(lambda_i, secret_key), challenge))

\* the response with the share term added
ResponseAdded(hiding, binding, rho_i, lambda_i, secret_key, challenge) ==
    Add(Add(hiding, Mul(binding, rho_i)), Mul(Mul(lambda_i, secret_key), challenge))

\* z_i = d_i + (e_i * rho_i) - lambda_i * s_i * c
Response(hiding, binding, rho_i, lambda_i, secret_key, challenge) ==
    Sub(Add(hiding, Mul(binding, rho_i)), Mul(Mul(lambda_i, secret_key), challenge))

\* PartialThresholdSignature::new_partial_sig: Ok(partial signature), or a
\* panic of one of its unwraps; the function has no path that returns Err
new_partial_sig(participant_signing_share, signing_nonce, signing_commitments, message, pr_sig) ==
    LET binding_values == BindingValues(signing_commitments, message)
        self == participant_signing_share.participant_index
    IN IF self \notin DOMAIN binding_values THEN [tag |-> "Panic"]
       ELSE
       LET signer_binding_value == binding_values[self]
           group_commitment ==
               calculate_group_commitment(signing_commitments, binding_values)
           address == DeriveAddress(participant_signing_share.group_public_key, pr_sig)
           participant_indexes ==
               [k \in 1..Len(signing_commitments) |->
                   signing_commitments[k].participant_index]
           lambda_i == calculate_lagrange_coefficients(self, participant_indexes)
       IN IF group_commitment.tag = "Panic" \/ lambda_i.tag = "Panic"
          THEN [tag |-> "Panic"]
          ELSE
          LET challenge ==
                  HashToScalarPsd8(
                      ChallengePreimage(group_commitment.val,
                                        participant_signing_share.group_public_key,
                                        pr_sig, address, message))
          IN [tag |-> "Ok",
              participant_index |-> self,
              partial_signature |->
                  Response(signing_nonce.hiding, signing_nonce.binding,
                           signer_binding_value, lambda_i.val,
                           participant_signing_share.secret_key, challenge)]

\* -------------------------------------------- main.rs: aggregate and verify

RECURSIVE SumResponses(_, _)
\* the loop that adds the partial signatures to the response
SumResponses(partial_signatures, multisig_response) ==
    IF partial_signatures = <<>> THEN multisig_response
    ELSE SumResponses(Tail(partial_signatures),
                      Add(multisig_response, Head(partial_signatures).partial_signature))

\* the aggregation in main: challenge from B and the message, response the
\* sum of the partial signatures, and the compute key
Aggregate(partial_signatures, signing_commitments, multisig_message, acct) ==
    LET binding_values == BindingValues(signing_commitments, multisig_message)
        group_commitment ==
            calculate_group_commitment(signing_commitments, binding_values)
        multisig_challenge ==
            HashToScalarPsd8(ChallengePreimage(group_commitment.val, acct.pk_sig,
                                               acct.pr_sig, acct.address,
                                               multisig_message))
    IN [challenge |-> multisig_challenge,
        response |-> SumResponses(partial_signatures, 0),
        pk_sig |-> acct.pk_sig,
        pr_sig |-> acct.pr_sig]

\* the candidate commitment without the public-key term
CandidateGRNoKey(sig) == GScalarMultiply(sig.response)

\* the candidate commitment g^z + pk^c
CandidateGR(sig) ==
    GAdd(GScalarMultiply(sig.response), GMul(sig.pk_sig, sig.challenge))

\* the verification in main
Verify(sig, address, message) ==
    LET candidate_challenge ==
            HashToScalarPsd8(ChallengePreimage(CandidateGR(sig), sig.pk_sig,
                                               sig.pr_sig, address, message))
        candidate_address == DeriveAddress(sig.pk_sig, sig.pr_sig)
    IN sig.challenge = candidate_challenge /\ address = candidate_address

\* ------------------------------------------------------------ the state

VARIABLES
    call,                   \* the inputs of the pure function under test
    ret,                    \* the results of the calls made so far
    account,                \* the account of main: keys and address
    shares,                 \* the signer shares trusted_keygen returned
    nonces,                 \* the signing nonces each participant holds
    signing_commitments_b,  \* B, the commitments of the session
    message,                \* the message of the session
    partial_signatures,     \* the vector the aggregator sums
    history,                \* the calls of new_partial_sig made so far
    signature,              \* the aggregated signature
    verified,               \* the verification made, with its result
    pc                      \* the step the session is at

vars == <<call, ret, account, shares, nonces, signing_commitments_b, message,
          partial_signatures, history, signature, verified, pc>>

sessionVars == <<account, shares, nonces, signing_commitments_b, message,
                 partial_signatures, history, signature, verified, pc>>

\* the session variables while a pure function is exercised on its own
NoSession ==
    /\ account = "none"
    /\ shares = "none"
    /\ nonces = "none"
    /\ signing_commitments_b = <<>>
    /\ message = <<>>
    /\ partial_signatures = <<>>
    /\ history = <<>>
    /\ signature = "none"
    /\ verified = "none"
    /\ pc = "call"

\* ------------------------------------------- calculate_lagrange_coefficients

RECURSIVE SeqsUpTo(_, _)
\* the sequences over S of length at most n
SeqsUpTo(S, n) ==
    IF n = 0 THEN {<<>>}
    ELSE LET shorter == SeqsUpTo(S, n - 1)
         IN shorter \cup {Append(s, x) : s \in {r \in shorter : Len(r) = n - 1}, x \in S}

SeqsOfLen(S, n) == {s \in SeqsUpTo(S, n) : Len(s) = n}

InitLagrange ==
    /\ \E indices \in SeqsUpTo(1..N, MaxLen) :
       \E poly \in SeqsOfLen(0..MaxCoef, Len(indices)) :
          call = [fn |-> "lagrange", all_participant_indices |-> indices, poly |-> poly]
    /\ ret = << >>
    /\ NoSession

\* one call of calculate_lagrange_coefficients for participant_index
CallLagrange(participant_index) ==
    /\ call.fn = "lagrange"
    /\ participant_index \notin DOMAIN ret
    /\ ret' = (participant_index :>
                 calculate_lagrange_coefficients(participant_index,
                                                 call.all_participant_indices)) @@ ret
    /\ UNCHANGED <<call, sessionVars>>

NextLagrange == \E participant_index \in 1..N : CallLagrange(participant_index)

SpecLagrange == InitLagrange /\ [][NextLagrange]_vars

\* ---- claims about calculate_lagrange_coefficients

Range(s) == {s[k] : k \in 1..Len(s)}

HasDuplicate(s) == \E j, k \in 1..Len(s) : j # k /\ s[j] = s[k]

RECURSIVE EvalPoly(_, _)
\* f(x) for the polynomial with coefficients poly, constant term first
EvalPoly(poly, x) ==
    IF poly = <<>> THEN 0
    ELSE Add(Head(poly), Mul(x, EvalPoly(Tail(poly), x)))

RECURSIVE Interpolate(_, _, _)
\* the sum over the indices of lambda_i * f(i)
Interpolate(indices, lambdas, poly) ==
    IF indices = <<>> THEN 0
    ELSE Add(Mul(lambdas[Head(indices)].val, EvalPoly(poly, IndexToScalar(Head(indices)))),
             Interpolate(Tail(indices), lambdas, poly))

\* every index of the list has had its coefficient computed
AllCoefficientsComputed ==
    /\ call.fn = "lagrange"
    /\ call.all_participant_indices # <<>>
    /\ ~HasDuplicate(call.all_participant_indices)
    /\ Range(call.all_participant_indices) \subseteq DOMAIN ret

\* C4: for a list of t distinct indices and a polynomial f of degree t-1, the
\* coefficients computed for the indices of the list are all returned and
\* satisfy sum lambda_i * f(i) = f(0).
C4_LagrangeCorrect ==
    AllCoefficientsComputed =>
        /\ \A i \in Range(call.all_participant_indices) : ret[i].tag = "Ok"
        /\ Interpolate(call.all_participant_indices, ret, call.poly) = EvalPoly(call.poly, 0)

\* all coefficients of a three-index list are computed for a polynomial of
\* degree two with nonzero leading coefficients
C4_Witness ==
    /\ AllCoefficientsComputed
    /\ Len(call.all_participant_indices) = 3
    /\ call.poly[2] # 0
    /\ call.poly[3] # 0

\* C5: a call whose index list holds a repeated index fails: it returns no
\* coefficient.
C5_DuplicateIndexFails ==
    (call.fn = "lagrange" /\ HasDuplicate(call.all_participant_indices)) =>
        \A participant_index \in DOMAIN ret : ret[participant_index].tag # "Ok"

\* C6: a call whose index list is empty or does not hold the participant index
\* fails: it returns no coefficient.
C6_EmptyOrMissingIndexFails ==
    call.fn = "lagrange" =>
        \A participant_index \in DOMAIN ret :
            (call.all_participant_indices = <<>>
             \/ participant_index \notin Range(call.all_participant_indices))
            => ret[participant_index].tag # "Ok"

\* ------------------------------------------------- calculate_binding_value

\* the message main signs, and another message: sequences of field elements
TheMessage == <<1, 2>>
OtherMessage == <<2, 1>>

Messages == {TheMessage, OtherMessage}

\* the commitments preprocess can publish for the participants 1..N
Commitments ==
    {SigningCommitmentFrom(i, nonce) : i \in 1..N, nonce \in SigningNonces}

\* alt is signing_commitments in another order
IsReordering(signing_commitments, alt) ==
    /\ Len(alt) = Len(signing_commitments)
    /\ alt # signing_commitments
    /\ \E perm \in [1..Len(alt) -> 1..Len(alt)] :
          /\ \A j, k \in 1..Len(alt) : j # k => perm[j] # perm[k]
          /\ \A k \in 1..Len(alt) : alt[k] = signing_commitments[perm[k]]

\* alt is signing_commitments with exactly one commitment replaced
IsReplacement(signing_commitments, alt) ==
    /\ Len(alt) = Len(signing_commitments)
    /\ Cardinality({k \in 1..Len(alt) : alt[k] # signing_commitments[k]}) = 1

InitBinding ==
    /\ \E signing_commitments \in SeqsUpTo(Commitments, T) \ {<<>>} :
       \E alt \in SeqsOfLen(Commitments, Len(signing_commitments)) :
       \E m \in Messages :
          /\ IsReordering(signing_commitments, alt) \/ IsReplacement(signing_commitments, alt)
          /\ call = [fn |-> "binding", signing_commitments |-> signing_commitments,
                     alt |-> alt, message |-> m]
    /\ ret = << >>
    /\ NoSession

\* the calls of calculate_binding_value for every commitment of one list, as
\* in the loop that opens new_partial_sig; the preimage is kept with the value
CallBinding(which) ==
    /\ call.fn = "binding"
    /\ which \notin DOMAIN ret
    /\ LET list == IF which = 1 THEN call.signing_commitments ELSE call.alt
           indices == {list[k].participant_index : k \in 1..Len(list)}
       IN ret' = (which :>
                    [i \in indices |->
                       [preimage |-> BindingPreimage(i, list, call.message),
                        value |-> calculate_binding_value(i, list, call.message)]]) @@ ret
    /\ UNCHANGED <<call, sessionVars>>

NextBinding == \E which \in 1..2 : CallBinding(which)

SpecBinding == InitBinding /\ [][NextBinding]_vars

\* ---- claims about calculate_binding_value

\* both lists have had their binding values computed
BothComputed == call.fn = "binding" /\ DOMAIN ret = {1, 2}

\* C7: for a fixed participant index, message and set of commitments, the
\* binding value does not depend on the order the caller lists the
\* commitments in.
C7_BindingOrderIndependent ==
    (/\ BothComputed
     /\ IsReordering(call.signing_commitments, call.alt)
     /\ Cardinality(DOMAIN ret[1]) = Len(call.signing_commitments)) =>
        \A i \in DOMAIN ret[1] : ret[1][i].value = ret[2][i].value

\* C8: replacing one commitment of B by a different commitment changes, for
\* every index of B, the preimage that is hashed to the binding value, so a
\* collision-free hash returns a different binding value for every index.
C8_BindingDivergence ==
    (BothComputed /\ IsReplacement(call.signing_commitments, call.alt)) =>
        \A i \in DOMAIN ret[1] :
            ret[1][i].preimage # BindingPreimage(i, call.alt, call.message)

\* binding values were computed for a two-commitment B and for the list in
\* which only the binding point of one commitment was replaced
C8_Witness ==
    /\ BothComputed
    /\ IsReplacement(call.signing_commitments, call.alt)
    /\ Len(call.alt) = 2
    /\ \E k \in 1..2 :
          /\ call.alt[k].participant_index = call.signing_commitments[k].participant_index
          /\ call.alt[k].hiding = call.signing_commitments[k].hiding
          /\ call.alt[k].binding # call.signing_commitments[k].binding

\* ---------------------------------------------- calculate_group_commitment

\* the binding values a caller's map can hold
BindingFactors == {1, 5}

\* the maps from some of the indices 1..N to binding values
BindingValueMaps == UNION {[S -> BindingFactors] : S \in SUBSET (1..N)}

\* the list in the opposite order
Reverse(list) == [k \in 1..Len(list) |-> list[Len(list) + 1 - k]]

InitGroup ==
    /\ \E signing_commitments \in SeqsUpTo(Commitments, T) :
       \E binding_values \in BindingValueMaps :
          call = [fn |-> "group", signing_commitments |-> signing_commitments,
                  binding_values |-> binding_values]
    /\ ret = << >>
    /\ NoSession

\* one call of calculate_group_commitment, over the list as given (1) or in
\* the opposite order (2)
CallGroup(which) ==
    /\ call.fn = "group"
    /\ which \notin DOMAIN ret
    /\ LET list == IF which = 1 THEN call.signing_commitments
                   ELSE Reverse(call.signing_commitments)
       IN ret' = (which :> calculate_group_commitment(list, call.binding_values)) @@ ret
    /\ UNCHANGED <<call, sessionVars>>

NextGroup == \E which \in 1..2 : CallGroup(which)

SpecGroup == InitGroup /\ [][NextGroup]_vars

\* ---- claims about calculate_group_commitment

RECURSIVE SumOfTerms(_, _)
\* the sum over the commitments of the list of D_i + rho_i * E_i, last first
SumOfTerms(list, binding_values) ==
    IF list = <<>> THEN 0
    ELSE LET last == list[Len(list)]
         IN (SumOfTerms(SubSeq(list, 1, Len(list) - 1), binding_values)
             + last.hiding + binding_values[last.participant_index] * last.binding) % Q

\* C14: when the map holds a binding factor for every index of B, the call
\* returns the sum over the commitments of B of D_i + rho_i * E_i, and returns
\* the same for B in another order; when some index of B has no binding
\* factor, the call fails and returns no group element.
C14_GroupCommitment ==
    (call.fn = "group" /\ DOMAIN ret = {1, 2}) =>
        IF {call.signing_commitments[k].participant_index :
                k \in 1..Len(call.signing_commitments)} \subseteq DOMAIN call.binding_values
        THEN /\ ret[1].tag = "Ok"
             /\ ret[1].val = SumOfTerms(call.signing_commitments, call.binding_values)
             /\ ret[2] = ret[1]
        ELSE /\ ret[1].tag = "Panic"
             /\ ret[2].tag = "Panic"

\* the group commitment of two different commitments with nonzero points and
\* different binding factors was computed in both orders
C14_Witness ==
    /\ call.fn = "group"
    /\ DOMAIN ret = {1, 2}
    /\ Len(call.signing_commitments) = 2
    /\ call.signing_commitments[1].participant_index
          # call.signing_commitments[2].participant_index
    /\ \A k \in 1..2 : /\ call.signing_commitments[k].hiding # 0
                       /\ call.signing_commitments[k].binding # 0
    /\ ret[1].tag = "Ok"
    /\ call.binding_values[call.signing_commitments[1].participant_index]
          # call.binding_values[call.signing_commitments[2].participant_index]

\* ------------------------------------------------------ the signing session

\* the participants holding a nonce, whose commitments are published
Published == {i \in 1..N : nonces[i] # <<>>}

\* the commitment participant i published
CommitmentOf(i) == SigningCommitmentFrom(i, nonces[i][1])

\* main up to the key shares: the account and trusted_keygen(3, 2, sk_sig, rng)
Init ==
    /\ \E seed \in 0..MaxCoef :
       \E coefficients \in SeqsOfLen(0..MaxCoef, T - 1) :
          /\ account = Account(seed)
          /\ shares = trusted_keygen(N, account.sk_sig, coefficients)
    /\ nonces = [i \in 1..N |-> <<>>]
    /\ signing_commitments_b = <<>>
    /\ message = <<>>
    /\ partial_signatures = <<>>
    /\ history = <<>>
    /\ signature = "none"
    /\ verified = "none"
    /\ pc = "rd1"
    /\ call = "none"
    /\ ret = << >>

\* preprocess(1, participant_index, rng): one nonce and its commitment; as in
\* main, T participants preprocess, once each
Preprocess(participant_index, nonce) ==
    /\ pc = "rd1"
    /\ nonces[participant_index] = <<>>
    /\ Cardinality(Published) < T
    /\ nonces' = [nonces EXCEPT ![participant_index] = <<nonce>>]
    /\ UNCHANGED <<call, ret, account, shares, signing_commitments_b, message,
                   partial_signatures, history, signature, verified, pc>>

\* main builds B from published commitments and fixes the message
FormB(list, m) ==
    /\ pc = "rd1"
    /\ signing_commitments_b' = list
    /\ message' = m
    /\ pc' = "rd2"
    /\ UNCHANGED <<call, ret, account, shares, nonces, partial_signatures, history,
                   signature, verified>>

\* one call of new_partial_sig by participant i, who holds a nonce, over the
\* commitments and the message the caller hands in; the nonce is passed by
\* reference and stays with the caller; a panic ends the process; as in main,
\* the vector of partial signatures takes T entries
PartialSign(i, signing_commitments, m) ==
    /\ pc = "rd2"
    /\ nonces[i] # <<>>
    /\ Len(partial_signatures) < T
    /\ LET result == new_partial_sig(shares[i], nonces[i][1], signing_commitments, m,
                                     account.pr_sig)
       IN /\ history' = Append(history,
                               [participant_index |-> i,
                                signing_nonce |-> nonces[i][1],
                                signing_commitments |-> signing_commitments,
                                message |-> m,
                                outcome |-> result.tag])
          /\ IF result.tag = "Ok"
             THEN /\ partial_signatures' =
                       Append(partial_signatures,
                              [participant_index |-> result.participant_index,
                               partial_signature |-> result.partial_signature])
                  /\ pc' = pc
             ELSE /\ partial_signatures' = partial_signatures
                  /\ pc' = "panicked"
    /\ UNCHANGED <<call, ret, account, shares, nonces, signing_commitments_b, message,
                   signature, verified>>

\* the aggregator of main: challenge over B and the message, response the sum
\* of the partial signatures collected
AggregateSignature ==
    /\ pc = "rd2"
    /\ signature' = Aggregate(partial_signatures, signing_commitments_b, message,
                              account)
    /\ pc' = "aggregated"
    /\ UNCHANGED <<call, ret, account, shares, nonces, signing_commitments_b, message,
                   partial_signatures, history, verified>>

\* the verification of main for an address and a message
VerifySignature(address, m) ==
    /\ pc = "aggregated"
    /\ verified' = [address |-> address, message |-> m,
                    result |-> Verify(signature, address, m)]
    /\ pc' = "verified"
    /\ UNCHANGED <<call, ret, account, shares, nonces, signing_commitments_b, message,
                   partial_signatures, history, signature>>

\* the lists main can build from the published commitments
SigningSets == SeqsUpTo({CommitmentOf(i) : i \in Published}, T) \ {<<>>}

\* the addresses a verifier may be handed: the account's, and another one
Addresses == {account.address, GAdd(account.address, Gen)}

\* main, with any published participants in B and any holder of a nonce
\* calling new_partial_sig over B and the message
Next ==
    \/ \E i \in 1..N : \E nonce \in SigningNonces : Preprocess(i, nonce)
    \/ \E list \in SigningSets : FormB(list, TheMessage)
    \/ \E i \in Published : PartialSign(i, signing_commitments_b, message)
    \/ AggregateSignature
    \/ \E address \in Addresses : VerifySignature(address, message)
    \/ VerifySignature(account.address, OtherMessage)

Spec == Init /\ [][Next]_vars

\* B holds one commitment of each of T distinct participants
WellFormed(list) ==
    /\ Len(list) = T
    /\ \A j, k \in 1..Len(list) :
          j # k => list[j].participant_index # list[k].participant_index

\* what a signer may be handed instead of (B, message): the same B with
\* another message, or its own commitment alone with the message
SignerViews(i) ==
    {<<signing_commitments_b, message>>,
     <<signing_commitments_b, OtherMessage>>,
     <<(<<CommitmentOf(i)>>), message>>}

\* main with a well-formed B, where the signers may be handed other
\* commitments or another message than the aggregator holds
NextMixed ==
    \/ \E i \in 1..N : \E nonce \in SigningNonces : Preprocess(i, nonce)
    \/ \E list \in {l \in SigningSets : WellFormed(l)} : FormB(list, TheMessage)
    \/ \E i \in Published : \E view \in SignerViews(i) : PartialSign(i, view[1], view[2])
    \/ AggregateSignature
    \/ VerifySignature(account.address, message)

SpecMixed == Init /\ [][NextMixed]_vars

\* preprocessing, a well-formed B, and holders of a nonce calling
\* new_partial_sig over B for either message: the nonce stays with the caller,
\* who can hand it in again
NextReuse ==
    \/ \E i \in 1..N : \E nonce \in SigningNonces : Preprocess(i, nonce)
    \/ \E list \in {l \in SigningSets : WellFormed(l)} : FormB(list, TheMessage)
    \/ \E i \in Published : \E m \in Messages : PartialSign(i, signing_commitments_b, m)

SpecReuse == Init /\ [][NextReuse]_vars

\* ---- main, statement by statement

\* preprocess(1, 1, rng), then preprocess(1, 2, rng)
MainPreprocess(nonce) ==
    /\ Cardinality(Published) < T
    /\ Preprocess(Cardinality(Published) + 1, nonce)

\* signing_commitments_b holds the commitments of signers 1 and 2, in this order
MainFormB ==
    /\ Published = 1..T
    /\ FormB([k \in 1..T |-> CommitmentOf(k)], TheMessage)

\* partial_sig_1, then partial_sig_2, each unwrapped and pushed
MainPartialSign ==
    /\ Len(partial_signatures) < T
    /\ PartialSign(Len(partial_signatures) + 1, signing_commitments_b, message)

\* the aggregation, run without waiting for the partial signatures
MainAggregateEarly == AggregateSignature

\* the aggregation, which main reaches with both partial signatures pushed
MainAggregate ==
    /\ Len(partial_signatures) = T
    /\ AggregateSignature

\* the verification against the account address and the message
MainVerify == VerifySignature(account.address, message)

NextMain ==
    \/ \E nonce \in SigningNonces : MainPreprocess(nonce)
    \/ MainFormB
    \/ MainPartialSign
    \/ MainAggregate
    \/ MainVerify

SpecMain == Init /\ [][NextMain]_vars

\* ---- claims about the signing session

\* the group commitment R of the session, as the aggregator computes it
SessionGroupCommitment ==
    calculate_group_commitment(signing_commitments_b,
                               BindingValues(signing_commitments_b, message)).val

\* the indices of the commitments of a list
IndicesOf(list) == {list[k].participant_index : k \in 1..Len(list)}

\* exactly T participants with distinct indices preprocessed once, B holds
\* their T commitments, each signed once over B and the message with its own
\* share and nonce, and the aggregator summed the T partial signatures
HonestRun ==
    /\ pc \in {"aggregated", "verified"}
    /\ WellFormed(signing_commitments_b)
    /\ Len(history) = T
    /\ Len(partial_signatures) = T
    /\ {history[k].participant_index : k \in 1..Len(history)}
          = IndicesOf(signing_commitments_b)
    /\ \A k \in 1..Len(history) :
          /\ history[k].signing_commitments = signing_commitments_b
          /\ history[k].message = message

\* C1: the signature aggregated from the T partial signatures of an honest run
\* satisfies g^z + pk^c = R, and its verification against the account address
\* and the message returns true.
C1_Completeness ==
    HonestRun =>
        /\ CandidateGR(signature) = SessionGroupCommitment
        /\ (pc = "verified" /\ verified.address = account.address
                            /\ verified.message = message)
           => verified.result = TRUE

\* an honest run with different shares and nonzero binding nonces was verified
C1_Witness ==
    /\ HonestRun
    /\ pc = "verified"
    /\ verified.address = account.address
    /\ verified.message = message
    /\ verified.result = TRUE
    /\ shares[1].secret_key # shares[2].secret_key
    /\ \A k \in 1..Len(history) : history[k].signing_nonce.binding # 0

\* the aggregate holds fewer than T partial signatures, or a partial signature
\* computed over other commitments or another message than the aggregator's
Deviant ==
    /\ pc = "verified"
    /\ \/ Len(partial_signatures) < T
       \/ \E k \in 1..Len(history) :
             \/ history[k].signing_commitments # signing_commitments_b
             \/ history[k].message # message

\* the sum of the T partial signatures correctly computed over B and the message
CorrectResponse ==
    SumResponses(
        [k \in 1..Len(signing_commitments_b) |->
            LET i == signing_commitments_b[k].participant_index
            IN new_partial_sig(shares[i], nonces[i][1], signing_commitments_b,
                               message, account.pr_sig)], 0)

\* every partial signature that was aggregated is a correct one, of a signer
\* of B over B and the message, and every signer of B that was left out holds
\* a zero share and zero nonces
OnlyZeroSignersOmitted ==
    /\ \A k \in 1..Len(history) :
          /\ history[k].signing_commitments = signing_commitments_b
          /\ history[k].message = message
    /\ \A j, k \in 1..Len(history) :
          j # k => history[j].participant_index # history[k].participant_index
    /\ \A i \in IndicesOf(signing_commitments_b) :
          i \notin {history[k].participant_index : k \in 1..Len(history)}
          => /\ shares[i].secret_key = 0
             /\ nonces[i][1] = [hiding |-> 0, binding |-> 0]

\* C2 as stated: a signature aggregated from fewer than T partial signatures,
\* or from partial signatures over other commitments or another message, does
\* not verify.  (So that no verification is counted that rests on the values
\* the small hash of the model takes, a verification is counted only when the
\* candidate commitment equals R and OnlyZeroSignersOmitted holds.)
C2_NeverVerifies ==
    Deviant => ~(/\ verified.result = TRUE
                 /\ CandidateGR(signature) = SessionGroupCommitment
                 /\ OnlyZeroSignersOmitted)

\* C2 as amended: such a signature fails the verification equation
\* g^z + pk^c = R unless its response equals the sum of the T partial
\* signatures correctly computed over B and the message; when the equation
\* fails, a verification can only succeed by a collision of the challenge hash.
C2_FailsUnlessResponseCoincides ==
    (Deviant /\ signature.response # CorrectResponse) =>
        /\ CandidateGR(signature) # SessionGroupCommitment
        /\ ChallengePreimage(CandidateGR(signature), signature.pk_sig, signature.pr_sig,
                             verified.address, verified.message)
           # ChallengePreimage(SessionGroupCommitment, account.pk_sig, account.pr_sig,
                               account.address, message)

\* a signature aggregated from a single partial signature of a two-signer
\* session was verified and rejected
C2_Witness ==
    /\ Deviant
    /\ Len(partial_signatures) = 1
    /\ signature.response # CorrectResponse
    /\ verified.result = FALSE

\* C3: the verification returns true exactly when the challenge recomputed
\* from [g^z + pk^c, pk, pr_sig, address, message] equals the challenge of the
\* signature and the address equals the one derived from the signature's key
\* material; and for a signature that verifies, the preimage hashed for any
\* other message differs, so a collision-free hash rejects the other message.
C3_VerifyExact ==
    pc = "verified" =>
        LET candidate == GAdd(GScalarMultiply(signature.response),
                              GMul(signature.pk_sig, signature.challenge))
            recomputed ==
                HashToScalarPsd8(<<ToXCoordinate(candidate),
                                   ToXCoordinate(signature.pk_sig),
                                   ToXCoordinate(signature.pr_sig),
                                   ToXCoordinate(verified.address)>>
                                 \o verified.message)
        IN /\ verified.result =
                (/\ recomputed = signature.challenge
                 /\ verified.address = DeriveAddress(signature.pk_sig, signature.pr_sig))
           /\ verified.result = TRUE =>
                \A other \in {TheMessage, OtherMessage} \ {verified.message} :
                    ChallengePreimage(candidate, signature.pk_sig, signature.pr_sig,
                                      verified.address, other)
                    # ChallengePreimage(candidate, signature.pk_sig, signature.pr_sig,
                                        verified.address, verified.message)

\* the signature of an honest run was verified against the message and accepted
C3_Witness ==
    /\ pc = "verified"
    /\ HonestRun
    /\ verified.message = message
    /\ verified.result = TRUE

\* C9: every signing nonce is used in at most one call of new_partial_sig.
C9_NonceSingleUse ==
    \A j, k \in 1..Len(history) :
        (j # k /\ history[j].participant_index = history[k].participant_index)
        => history[j].signing_nonce # history[k].signing_nonce

\* C10: a call of new_partial_sig with a share whose index has no commitment in
\* the list returns a failure value to its caller; the process is not aborted.
C10_FailureReturned ==
    \A k \in 1..Len(history) :
        history[k].participant_index \notin IndicesOf(history[k].signing_commitments)
        => (history[k].outcome = "Err" /\ pc # "panicked")

\* C11: every partial signature is produced over a B that holds exactly T
\* commitments, one per participating index, with no participant index twice
\* and no index equal to zero.
C11_SigningSetWellFormed ==
    \A k \in 1..Len(history) :
        history[k].outcome = "Ok" =>
            /\ WellFormed(history[k].signing_commitments)
            /\ 0 \notin IndicesOf(history[k].signing_commitments)

\* ---- nonce reuse

\* the pairs of calls in which one participant handed the same nonce to
\* new_partial_sig for two different messages over the same commitments, both
\* calls returning a partial signature
ReusePairs ==
    {jk \in (1..Len(partial_signatures)) \X (1..Len(partial_signatures)) :
        /\ jk[1] < jk[2]
        /\ history[jk[1]].participant_index = history[jk[2]].participant_index
        /\ history[jk[1]].signing_nonce = history[jk[2]].signing_nonce
        /\ history[jk[1]].signing_commitments = history[jk[2]].signing_commitments
        /\ history[jk[1]].message # history[jk[2]].message}

\* what an observer holds of call k: the partial signature, and the binding
\* factor, challenge and Lagrange coefficient computed from the public data
Observed(k) ==
    LET i == history[k].participant_index
        list == history[k].signing_commitments
        m == history[k].message
        binding_values == BindingValues(list, m)
    IN [z |-> partial_signatures[k].partial_signature,
        rho |-> binding_values[i],
        c |-> HashToScalarPsd8(
                  <<ToXCoordinate(calculate_group_commitment(list, binding_values).val),
                    ToXCoordinate(account.pk_sig), ToXCoordinate(account.pr_sig),
                    ToXCoordinate(account.address)>> \o m),
        lambda |-> calculate_lagrange_coefficients(
                       i, [n \in 1..Len(list) |-> list[n].participant_index]).val]

\* the partial-signature equation z = d + e * rho - lambda * s * c of one call
Equation(obs, d, e, s) ==
    obs.z = (d + e * obs.rho + (Q - 1) * ((obs.lambda * s * obs.c) % Q)) % Q

\* the shares the equations of two calls allow, the nonce being unknown
SharesAllowed(o1, o2) ==
    {s \in Scalars : \E d, e \in Scalars : Equation(o1, d, e, s) /\ Equation(o2, d, e, s)}

\* the shares the equations of two calls allow once the binding nonce is known
SharesAllowedGiven(o1, o2, e) ==
    {s \in Scalars : \E d \in Scalars : Equation(o1, d, e, s) /\ Equation(o2, d, e, s)}

\* C12 as stated: when a participant used one nonce for two different messages
\* over the same B, the two partial-signature equations determine the secret
\* share of that participant.  (The two messages are counted as different
\* only when their binding factors and their challenges differ, as they do
\* under a collision-free hash.)
C12_ShareDetermined ==
    \A jk \in ReusePairs :
        LET o1 == Observed(jk[1])
            o2 == Observed(jk[2])
        IN (o1.rho # o2.rho /\ o1.c # o2.c) =>
            SharesAllowed(o1, o2) = {shares[history[jk[1]].participant_index].secret_key}

\* C12 as amended: the two equations determine the secret share once the
\* binding nonce is known, provided lambda_i * (c - c') is not zero; with the
\* nonce unknown and different binding factors they allow every share.
C12_ShareDeterminedGivenBindingNonce ==
    \A jk \in ReusePairs :
        LET o1 == Observed(jk[1])
            o2 == Observed(jk[2])
        IN (o1.lambda * (o1.c + Q - o2.c)) % Q # 0 =>
            /\ SharesAllowedGiven(o1, o2, history[jk[1]].signing_nonce.binding)
                  = {shares[history[jk[1]].participant_index].secret_key}
            /\ o1.rho # o2.rho => SharesAllowed(o1, o2) = Scalars

\* a participant with a nonzero share and a nonzero binding nonce signed two
\* messages with one nonce, with different binding factors and challenges
C12_Witness ==
    \E jk \in ReusePairs :
        LET o1 == Observed(jk[1])
            o2 == Observed(jk[2])
        IN /\ (o1.lambda * (o1.c + Q - o2.c)) % Q # 0
           /\ o1.rho # o2.rho
           /\ history[jk[1]].signing_nonce.binding # 0
           /\ shares[history[jk[1]].participant_index].secret_key # 0

\* ---- session ordering

\* how far the session is: Idle 0, Preprocessed 1, Bound 2, PartiallySigned
\* 2 + the number of partial signatures, Aggregated 3 + T, Verified 4 + T,
\* Failed 5 + T
PhaseRank ==
    IF pc = "rd1" THEN (IF Published = {} THEN 0 ELSE 1)
    ELSE IF pc = "rd2" THEN 2 + Len(partial_signatures)
    ELSE IF pc = "aggregated" THEN 3 + T
    ELSE IF pc = "verified" THEN 4 + T
    ELSE 5 + T

\* every commitment of B is the one its participant published in preprocessing
BFromPreprocessing ==
    /\ signing_commitments_b # <<>>
    /\ \A k \in 1..Len(signing_commitments_b) :
          /\ signing_commitments_b[k].participant_index \in Published
          /\ signing_commitments_b[k]
                = CommitmentOf(signing_commitments_b[k].participant_index)

\* what a step of the session changes: every action changes one of these
orderVars == <<pc, nonces, signing_commitments_b, partial_signatures, history>>

RECURSIVE CommitmentTriples(_)
\* for every commitment of the list, its index and the x-coordinates of its
\* hiding and binding points
CommitmentTriples(list) ==
    IF list = <<>> THEN <<>>
    ELSE LET last == list[Len(list)]
         IN CommitmentTriples(SubSeq(list, 1, Len(list) - 1))
            \o <<IndexToField(last.participant_index), ToXCoordinate(last.hiding),
                 ToXCoordinate(last.binding)>>

\* rho_i: the binding factor of index i over the list and the message
ExpectedRho(i, list, m) ==
    HashToScalarPsd4(<<IndexToField(i), HashToScalarPsd4(m)>> \o CommitmentTriples(list))

RECURSIVE ProductOver(_, _, _)
\* the product over the entries j of the list other than i of j (which = 1)
\* or of j - i (which = 2)
ProductOver(i, list, which) ==
    IF list = <<>> THEN 1
    ELSE LET j == list[Len(list)].participant_index
             rest == ProductOver(i, SubSeq(list, 1, Len(list) - 1), which)
         IN IF j = i THEN rest
            ELSE IF which = 1 THEN (rest * j) % Q
            ELSE (rest * (j + Q - i)) % Q

\* lambda_i: the Lagrange coefficient at zero of index i over the indices of
\* the list, the scalar whose product with the denominator is the numerator
ExpectedLambda(i, list) ==
    CHOOSE l \in Scalars : (l * ProductOver(i, list, 2)) % Q = ProductOver(i, list, 1)

\* c: the challenge hashed from the x-coordinates of [R, group public key,
\* pr_sig, derived address] followed by the message
ExpectedChallenge(share, list, m) ==
    LET R == SumOfTerms(list, [j \in IndicesOf(list) |-> ExpectedRho(j, list, m)])
    IN HashToScalarPsd8(
           <<ToXCoordinate(R), ToXCoordinate(share.group_public_key),
             ToXCoordinate(account.pr_sig),
             ToXCoordinate(DeriveAddress(share.group_public_key, account.pr_sig))>>
           \o m)

====
